---- MODULE Spec2Model ----
(***************************************************************************)
(* Model of recorder.py: a screen recorder that selects a region, opens a  *)
(* video writer inside a context manager, runs a capture / overlay /       *)
(* encode / preview cycle until a stop key, and reports a summary.         *)
(*                                                                         *)
(* main() is a sequential program; pc is its position.  One action models  *)
(* one statement group of the source.  Exceptions are modelled by the      *)
(* variable exc (the exception in flight) and the positions "ctx_exit"     *)
(* (VideoWriterContext.__exit__), "main_except" (the except clauses of     *)
(* main) and "finally".  KeyboardInterrupt is asynchronous: it may be      *)
(* raised at any position of the body of main (region selection, encoder   *)
(* opening, every step of a cycle, the summary).  The clean-up code        *)
(* (__exit__, the except clauses, finally) runs to completion.             *)
(***************************************************************************)
EXTENDS Integers, Sequences, FiniteSets, TLC

\* ---------------------------------------------------------------- bounds
MaxFrames == 2          \* cycles of the capture loop explored
MaxCoord  == 1          \* origin coordinates of the drawn rectangle: 0..MaxCoord
MaxDim    == 2          \* width / height of the drawn rectangle: 0..MaxDim
ScreenW   == 3          \* display width  (scr.shape[1])
ScreenH   == 2          \* display height (scr.shape[0])

\* ------------------------------------------------------ program constants
KeyQ    == 113          \* ord('q')
KeyEsc  == 27
ByteMask == 256         \* key & 0xFF  ==  key mod 256
Eps     == 1000         \* max(elapsed, 0.001): 0.001 s in microseconds
MicrosPerSecond == 1000000

\* values cv2.waitKey(1) can return: -1 (no key), 'q', ESC, 'a', 'Q'
RawKeys == {-1, 113, 27, 97, 81}
\* clock advance (microseconds) between two reads of datetime.now()
Ticks   == {0, Eps \div 2, 2 * Eps}

VARIABLES
  pc,           \* position in main()
  exc,          \* exception in flight: "none", "KeyboardInterrupt", "Exception", "SystemExit"
  diag,         \* argument of sys.exit(...), written to stderr at exit
  cause,        \* history: the exceptional event of this run, "none" if there was none
  leave,        \* history: how the while loop was left: "none", "stop", "interrupt", "error"
  console,      \* sequence of messages printed on stdout
  exitStatus,   \* process exit status, -1 while running
  roi,          \* result of cv2.selectROI: <<x, y, w, h>>
  region,       \* select_region(): <<x1, y1, x2, y2>>, <<>> before
  w, h,         \* main: w, h
  windows,      \* windows currently displayed
  shown,        \* history: windows ever created
  writer,       \* self.writer: "none", "unopened", "open", "released"
  resolution,   \* resolution handed to cv2.VideoWriter, <<>> before
  out,          \* the name bound by "with ... as out": "none" or "writer"
  releaseCount, \* number of calls of writer.release()
  file,         \* frames in the finalized output file
  img,          \* the image of the current cycle
  frame,        \* the converted frame of the current cycle
  captured,     \* history: ids of the frames captured, in order
  written,      \* frames accepted by out.write, in order
  frame_count,  \* main: frame_count
  now,          \* the clock, microseconds
  start_time,   \* main: start_time
  fps,          \* main: fps as <<numerator, denominator>>, <<>> before
  summary,      \* the summary printed, <<>> if none
  key,          \* main: key
  ts_instant,   \* the instant handed to the timestamp formatter
  ts_text       \* the text it returned, <<>> before

ctl   == <<pc, exc, diag, cause, leave, console, exitStatus>>
selv  == <<roi, region, w, h>>
winv  == <<windows, shown>>
encv  == <<writer, resolution, out, releaseCount, file>>
loopv == <<img, frame, captured, written, frame_count, key>>
timev == <<now, start_time, fps, summary>>
tsv   == <<ts_instant, ts_text>>
vars  == <<ctl, selv, winv, encv, loopv, timev, tsv>>

NoFrame == [id |-> 0, stamped |-> FALSE, order |-> "none"]

Max_mutNoFloor(a, b) == a

\* max(a, b) of line 109 and line 133
Max(a, b) == IF a >= b THEN a ELSE b

\* the state of main() when it is entered
MainInit ==
  /\ pc = "start" /\ exc = "none" /\ diag = "none" /\ cause = "none"
  /\ leave = "none" /\ console = <<>> /\ exitStatus = -1
  /\ roi = <<>> /\ region = <<>> /\ w = 0 /\ h = 0
  /\ windows = {} /\ shown = {}
  /\ writer = "none" /\ resolution = <<>> /\ out = "none"
  /\ releaseCount = 0 /\ file = <<>>
  /\ img = NoFrame /\ frame = NoFrame /\ captured = <<>> /\ written = <<>>
  /\ frame_count = 0 /\ key = -1
  /\ now = 0 /\ start_time = 0 /\ fps = <<>> /\ summary = <<>>

Init ==
  /\ MainInit
  /\ ts_instant = [second |-> 0, micro |-> 0] /\ ts_text = <<>>

\* ------------------------------------------------------------ exceptions
\* sys.exit(msg): raises SystemExit carrying msg
SysExit(msg, why) ==
  /\ exc' = "SystemExit"
  /\ diag' = msg
  /\ cause' = why

\* exit status of the interpreter for the exception that leaves main()
ExitCode(e) == IF e = "none" THEN 0 ELSE 1

\* --------------------------------------------------------- select_region
\* main, line 74
Start ==
  /\ pc = "start"
  /\ console' = Append(console, "starting")
  /\ pc' = "select_grab"
  /\ UNCHANGED <<exc, diag, cause, leave, exitStatus, selv, winv, encv, loopv, timev, tsv>>

\* select_region, line 42: scr = np.array(ImageGrab.grab())
SelectGrab ==
  /\ pc = "select_grab"
  /\ pc' = "select_roi"
  /\ UNCHANGED <<exc, diag, cause, leave, console, exitStatus, selv, winv, encv, loopv, timev, tsv>>

\* select_region, lines 43-48: cv2.selectROI shows the window and returns
\* the rectangle; cancelling returns (0, 0, 0, 0)
SelectROI ==
  /\ pc = "select_roi"
  /\ \E x \in 0..MaxCoord, y \in 0..MaxCoord, rw \in 0..MaxDim, rh \in 0..MaxDim :
        roi' = <<x, y, rw, rh>>
  /\ windows' = windows \cup {"select"}
  /\ shown' = shown \cup {"select"}
  /\ pc' = "select_destroy"
  /\ UNCHANGED <<exc, diag, cause, leave, console, exitStatus, region, w, h, encv, loopv, timev, tsv>>

\* select_region, line 49: cv2.destroyAllWindows()
SelectDestroy ==
  /\ pc = "select_destroy"
  /\ windows' = {}
  /\ pc' = "select_return"
  /\ UNCHANGED <<exc, diag, cause, leave, console, exitStatus, selv, shown, encv, loopv, timev, tsv>>

select_region_mutNoOffset(r, sw, sh) ==
  IF r = <<0, 0, 0, 0>> THEN <<0, 0, sw, sh>>
  ELSE <<r[1], r[2], r[3], r[4]>>

\* select_region, lines 51-55: the value returned for a selectROI result r
\* on a display of sw x sh
select_region(r, sw, sh) ==
  IF r = <<0, 0, 0, 0>> THEN <<0, 0, sw, sh>>
  ELSE <<r[1], r[2], r[1] + r[3], r[2] + r[4]>>

\* select_region, lines 51-55, and the assignment of main, line 75
SelectReturn ==
  /\ pc = "select_return"
  /\ region' = select_region(roi, ScreenW, ScreenH)
  /\ console' = IF roi = <<0, 0, 0, 0>> THEN Append(console, "full_screen") ELSE console
  /\ pc' = "compute"
  /\ UNCHANGED <<exc, diag, cause, leave, exitStatus, roi, w, h, winv, encv, loopv, timev, tsv>>

\* select_region, lines 56-57: an exception of grab, selectROI or
\* destroyAllWindows is turned into sys.exit("Region selection failed: ...").
\* A failing selectROI may already have created its window.
SelectFail ==
  /\ pc \in {"select_grab", "select_roi", "select_destroy"}
  /\ IF pc = "select_roi"
       THEN \E created \in BOOLEAN :
              /\ windows' = IF created THEN windows \cup {"select"} ELSE windows
              /\ shown' = IF created THEN shown \cup {"select"} ELSE shown
       ELSE UNCHANGED winv
  /\ SysExit("Region selection failed", "region_failure")
  /\ pc' = "main_except"
  /\ UNCHANGED <<leave, console, exitStatus, selv, encv, loopv, timev, tsv>>

\* ------------------------------------------------------------------ main
\* main, lines 76-83
Compute ==
  /\ pc = "compute"
  /\ w' = region[3] - region[1]
  /\ h' = region[4] - region[2]
  /\ console' = Append(console, "recording_info")
  /\ pc' = "ctx_init"
  /\ UNCHANGED <<exc, diag, cause, leave, exitStatus, roi, region, winv, encv, loopv, timev, tsv>>

\* VideoWriterContext.__init__, lines 11-16, called from main, line 85
CtxInit ==
  /\ pc = "ctx_init"
  /\ writer' = "none"
  /\ resolution' = <<w, h>>
  /\ pc' = "enter_construct"
  /\ UNCHANGED <<exc, diag, cause, leave, console, exitStatus, selv, winv, out, releaseCount, file, loopv, timev, tsv>>

\* VideoWriterContext.__enter__, lines 20-25: cv2.VideoWriter(...) returns a
\* writer that is open or, when the file or codec cannot be used, not open
EnterConstruct ==
  /\ pc = "enter_construct"
  /\ \E ok \in BOOLEAN : writer' = IF ok THEN "open" ELSE "unopened"
  /\ pc' = "enter_check"
  /\ UNCHANGED <<exc, diag, cause, leave, console, exitStatus, selv, winv, resolution, out, releaseCount, file, loopv, timev, tsv>>

\* VideoWriterContext.__enter__, lines 20-25 and 29-30: the constructor
\* raises; self.writer stays None; sys.exit("VideoWriter Error: ...")
EnterConstructFail ==
  /\ pc = "enter_construct"
  /\ SysExit("VideoWriter Error", "encoder_open_failure")
  /\ pc' = "main_except"
  /\ UNCHANGED <<leave, console, exitStatus, selv, winv, encv, loopv, timev, tsv>>

EnterCheck_mutNoCheck ==
  /\ pc = "enter_check"
  /\ out' = "writer"
  /\ pc' = "loop_init"
  /\ UNCHANGED <<exc, diag, cause, leave, console, exitStatus, selv, winv, writer, resolution, releaseCount, file, loopv, timev, tsv>>

\* VideoWriterContext.__enter__, lines 26-30: the is-open check.  A raise
\* inside __enter__ leaves the with statement without calling __exit__.
EnterCheck ==
  /\ pc = "enter_check"
  /\ IF writer = "open"
       THEN /\ out' = "writer"
            /\ pc' = "loop_init"
            /\ UNCHANGED <<exc, diag, cause>>
       ELSE /\ SysExit("VideoWriter Error", "encoder_open_failure")
            /\ pc' = "main_except"
            /\ UNCHANGED out
  /\ UNCHANGED <<leave, console, exitStatus, selv, winv, writer, resolution, releaseCount, file, loopv, timev, tsv>>

LoopInit_mutCheckFirst ==
  /\ pc = "loop_init"
  /\ frame_count' = 0
  /\ \E t \in Ticks : /\ now' = now + t
                      /\ start_time' = now + t
  /\ \E stop \in BOOLEAN :
        /\ pc' = IF stop THEN "ctx_exit" ELSE "capture"
        /\ leave' = IF stop THEN "stop" ELSE leave
  /\ UNCHANGED <<exc, diag, cause, console, exitStatus, selv, winv, encv, img, frame, captured, written, key, fps, summary, tsv>>

\* main, lines 86-87
LoopInit ==
  /\ pc = "loop_init"
  /\ frame_count' = 0
  /\ \E t \in Ticks : /\ now' = now + t
                      /\ start_time' = now + t
  /\ pc' = "capture"
  /\ UNCHANGED <<exc, diag, cause, leave, console, exitStatus, selv, winv, encv, img, frame, captured, written, key, fps, summary, tsv>>

\* ------------------------------------------------------------- the cycle
\* main, lines 91-92: img = ImageGrab.grab(bbox=region)
Capture ==
  /\ pc = "capture"
  /\ img' = [id |-> Len(captured) + 1, stamped |-> FALSE, order |-> "RGB"]
  /\ captured' = Append(captured, Len(captured) + 1)
  /\ pc' = "overlay"
  /\ UNCHANGED <<exc, diag, cause, leave, console, exitStatus, selv, winv, encv, frame, written, frame_count, key, timev, tsv>>

\* main, lines 95-100: timestamp and REC indicator drawn on img in place
Overlay ==
  /\ pc = "overlay"
  /\ img' = [img EXCEPT !.stamped = TRUE]
  /\ pc' = "convert"
  /\ UNCHANGED <<exc, diag, cause, leave, console, exitStatus, selv, winv, encv, frame, captured, written, frame_count, key, timev, tsv>>

\* main, line 103: frame = cv2.cvtColor(np.array(img), cv2.COLOR_RGB2BGR)
Convert ==
  /\ pc = "convert"
  /\ frame' = [img EXCEPT !.order = "BGR"]
  /\ pc' = "write"
  /\ UNCHANGED <<exc, diag, cause, leave, console, exitStatus, selv, winv, encv, img, captured, written, frame_count, key, timev, tsv>>

Write_mutDrop ==
  /\ pc = "write"
  /\ pc' = "count"
  /\ UNCHANGED <<exc, diag, cause, leave, console, exitStatus, selv, winv, encv, img, frame, captured, written, frame_count, key, timev, tsv>>

Write_mutDup ==
  /\ pc = "write"
  /\ written' = Append(Append(written, frame), frame)
  /\ pc' = "count"
  /\ UNCHANGED <<exc, diag, cause, leave, console, exitStatus, selv, winv, encv, img, frame, captured, frame_count, key, timev, tsv>>

\* main, line 104: out.write(frame)
Write ==
  /\ pc = "write"
  /\ written' = Append(written, frame)
  /\ pc' = "count"
  /\ UNCHANGED <<exc, diag, cause, leave, console, exitStatus, selv, winv, encv, img, frame, captured, frame_count, key, timev, tsv>>

Count_mutTwice ==
  /\ pc = "count"
  /\ frame_count' = frame_count + 2
  /\ pc' = "fps"
  /\ UNCHANGED <<exc, diag, cause, leave, console, exitStatus, selv, winv, encv, img, frame, captured, written, key, timev, tsv>>

\* main, line 105: frame_count += 1
Count ==
  /\ pc = "count"
  /\ frame_count' = frame_count + 1
  /\ pc' = "fps"
  /\ UNCHANGED <<exc, diag, cause, leave, console, exitStatus, selv, winv, encv, img, frame, captured, written, key, timev, tsv>>

\* main, lines 108-109: elapsed in microseconds, fps = frame_count / max(elapsed, 0.001)
Fps ==
  /\ pc = "fps"
  /\ \E t \in Ticks :
        /\ now' = now + t
        /\ fps' = <<frame_count * MicrosPerSecond, Max((now + t) - start_time, Eps)>>
  /\ pc' = "preview"
  /\ UNCHANGED <<exc, diag, cause, leave, console, exitStatus, selv, winv, encv, loopv, start_time, summary, tsv>>

\* main, lines 112-122: the preview is shown in the named window
Preview ==
  /\ pc = "preview"
  /\ windows' = windows \cup {"preview"}
  /\ shown' = shown \cup {"preview"}
  /\ pc' = "poll"
  /\ UNCHANGED <<exc, diag, cause, leave, console, exitStatus, selv, encv, loopv, timev, tsv>>

StopRequested_mutUpperCase(k, visible) == k = KeyQ \/ k = 81 \/ k = KeyEsc \/ ~visible

\* main, line 125: the stop condition for a masked key k and the
\* visibility of the preview window
StopRequested(k, visible) == k = KeyQ \/ k = KeyEsc \/ ~visible

\* main, lines 124-126: poll the key, break or start the next cycle.  The
\* user may have closed the preview window before the poll (visible is
\* FALSE): it is then no longer displayed.  The exploration is bounded:
\* after MaxFrames frames only a stop is polled.
Poll ==
  /\ pc = "poll"
  /\ \E raw \in RawKeys, visible \in BOOLEAN :
        /\ key' = raw % ByteMask
        /\ windows' = IF visible THEN windows ELSE windows \ {"preview"}
        /\ IF StopRequested(raw % ByteMask, visible)
             THEN /\ leave' = "stop"
                  /\ pc' = "ctx_exit"
             ELSE /\ frame_count < MaxFrames
                  /\ leave' = leave
                  /\ pc' = "capture"
  /\ UNCHANGED <<exc, diag, cause, console, exitStatus, selv, shown, encv, img, frame, captured, written, frame_count, timev, tsv>>

\* positions inside the while loop, and inside the with block
CyclePcs == {"capture", "overlay", "convert", "write", "count", "fps", "preview", "poll"}
WithPcs  == CyclePcs \cup {"loop_init"}
\* positions of the body of main where KeyboardInterrupt can be raised
BodyPcs  == WithPcs \cup {"start", "select_grab", "select_roi", "select_destroy",
                          "select_return", "compute", "ctx_init",
                          "enter_construct", "enter_check", "summary"}
\* positions of the cycle that call into the capture, drawing, encoding or
\* window libraries and can raise an exception
FailPcs  == {"capture", "overlay", "convert", "write", "preview", "poll"}

\* an exception (not KeyboardInterrupt) raised by a step of the cycle: the
\* step has no effect and the with statement calls __exit__
RuntimeFail ==
  /\ pc \in FailPcs
  /\ exc' = "Exception"
  /\ cause' = "runtime_exception"
  /\ leave' = "error"
  /\ pc' = "ctx_exit"
  /\ UNCHANGED <<diag, console, exitStatus, selv, winv, encv, loopv, timev, tsv>>

\* KeyboardInterrupt raised at a position of the body of main.  Inside the
\* with block the with statement calls __exit__; elsewhere (also inside
\* __enter__ and select_region, whose handlers catch Exception only) it
\* propagates to the except clauses of main.
Interrupt ==
  /\ pc \in BodyPcs
  /\ exc' = "KeyboardInterrupt"
  /\ cause' = "interrupt"
  /\ leave' = IF pc \in CyclePcs THEN "interrupt" ELSE leave
  /\ pc' = IF pc \in WithPcs THEN "ctx_exit" ELSE "main_except"
  /\ UNCHANGED <<diag, console, exitStatus, selv, winv, encv, loopv, timev, tsv>>

\* ---------------------------------------------------------------- leaving
CtxExit_mutNoRelease ==
  /\ pc = "ctx_exit"
  /\ console' = IF exc # "none" THEN Append(console, "exception_during_recording") ELSE console
  /\ pc' = IF exc = "none" THEN "summary" ELSE "main_except"
  /\ UNCHANGED <<exc, diag, cause, leave, exitStatus, selv, winv, encv, loopv, timev, tsv>>

CtxExit_mutNoReleaseOnError ==
  /\ pc = "ctx_exit"
  /\ IF writer # "none" /\ exc = "none"
       THEN /\ writer' = "released"
            /\ releaseCount' = releaseCount + 1
            /\ file' = written
       ELSE UNCHANGED <<writer, releaseCount, file>>
  /\ console' = IF exc # "none" THEN Append(console, "exception_during_recording") ELSE console
  /\ pc' = IF exc = "none" THEN "summary" ELSE "main_except"
  /\ UNCHANGED <<exc, diag, cause, leave, exitStatus, selv, winv, resolution, out, loopv, timev, tsv>>

CtxExit_mutDiscardPartial ==
  /\ pc = "ctx_exit"
  /\ IF writer # "none"
       THEN /\ writer' = "released"
            /\ releaseCount' = releaseCount + 1
            /\ file' = IF exc = "none" THEN written ELSE <<>>
       ELSE UNCHANGED <<writer, releaseCount, file>>
  /\ console' = IF exc # "none" THEN Append(console, "exception_during_recording") ELSE console
  /\ pc' = IF exc = "none" THEN "summary" ELSE "main_except"
  /\ UNCHANGED <<exc, diag, cause, leave, exitStatus, selv, winv, resolution, out, loopv, timev, tsv>>

CtxExit_mutSuppress ==
  /\ pc = "ctx_exit"
  /\ IF writer # "none"
       THEN /\ writer' = "released"
            /\ releaseCount' = releaseCount + 1
            /\ file' = written
       ELSE UNCHANGED <<writer, releaseCount, file>>
  /\ console' = IF exc # "none" THEN Append(console, "exception_during_recording") ELSE console
  /\ exc' = "none"
  /\ pc' = "summary"
  /\ UNCHANGED <<diag, cause, leave, exitStatus, selv, winv, resolution, out, loopv, timev, tsv>>

\* VideoWriterContext.__exit__, lines 32-36: release the writer (which
\* finalizes the file with the frames written), report an exception, and
\* return None, so that the exception propagates
CtxExit ==
  /\ pc = "ctx_exit"
  /\ IF writer # "none"
       THEN /\ writer' = "released"
            /\ releaseCount' = releaseCount + 1
            /\ file' = written
       ELSE UNCHANGED <<writer, releaseCount, file>>
  /\ console' = IF exc # "none" THEN Append(console, "exception_during_recording") ELSE console
  /\ pc' = IF exc = "none" THEN "summary" ELSE "main_except"
  /\ UNCHANGED <<exc, diag, cause, leave, exitStatus, selv, winv, resolution, out, loopv, timev, tsv>>

\* main, lines 128-133: duration and the summary
Summary ==
  /\ pc = "summary"
  /\ \E t \in Ticks :
        /\ now' = now + t
        /\ summary' = <<[file |-> "screen_rec.mp4",
                         duration |-> (now + t) - start_time,
                         frames |-> frame_count,
                         avg |-> <<frame_count * MicrosPerSecond,
                                   Max((now + t) - start_time, Eps)>>]>>
  /\ console' = Append(console, "summary")
  /\ pc' = "finally"
  /\ UNCHANGED <<exc, diag, cause, leave, exitStatus, selv, winv, encv, loopv, start_time, fps, tsv>>

MainExcept_mutRetry ==
  /\ pc = "main_except"
  /\ CASE exc = "KeyboardInterrupt" ->
            /\ console' = Append(console, "aborted_by_user")
            /\ exc' = "none"
            /\ pc' = "finally"
            /\ UNCHANGED diag
       [] exc = "Exception" ->
            /\ exc' = "none"
            /\ pc' = "select_grab"
            /\ UNCHANGED <<diag, console>>
       [] OTHER -> /\ pc' = "finally"
                   /\ UNCHANGED <<exc, diag, console>>
  /\ UNCHANGED <<cause, leave, exitStatus, selv, winv, encv, loopv, timev, tsv>>

MainExcept_mutInterruptCritical ==
  /\ pc = "main_except"
  /\ IF exc \in {"Exception", "KeyboardInterrupt"}
       THEN /\ exc' = "SystemExit"
            /\ diag' = "Critical error"
            /\ UNCHANGED console
       ELSE UNCHANGED <<exc, diag, console>>
  /\ pc' = "finally"
  /\ UNCHANGED <<cause, leave, exitStatus, selv, winv, encv, loopv, timev, tsv>>

\* main, lines 135-138: the except clauses.  SystemExit is neither
\* KeyboardInterrupt nor Exception and passes through.
MainExcept ==
  /\ pc = "main_except"
  /\ CASE exc = "KeyboardInterrupt" ->
            /\ console' = Append(console, "aborted_by_user")
            /\ exc' = "none"
            /\ UNCHANGED diag
       [] exc = "Exception" ->
            /\ exc' = "SystemExit"
            /\ diag' = "Critical error"
            /\ UNCHANGED console
       [] OTHER -> UNCHANGED <<exc, diag, console>>
  /\ pc' = "finally"
  /\ UNCHANGED <<cause, leave, exitStatus, selv, winv, encv, loopv, timev, tsv>>

Finally_mutNoDestroy ==
  /\ pc = "finally"
  /\ pc' = "done"
  /\ exitStatus' = ExitCode(exc)
  /\ UNCHANGED <<exc, diag, cause, leave, console, selv, winv, encv, loopv, timev, tsv>>

\* main, lines 139-140: cv2.destroyAllWindows(), then the process ends with
\* the status of the exception that leaves main, if any
Finally ==
  /\ pc = "finally"
  /\ windows' = {}
  /\ pc' = "done"
  /\ exitStatus' = ExitCode(exc)
  /\ UNCHANGED <<exc, diag, cause, leave, console, selv, shown, encv, loopv, timev, tsv>>

Next ==
  \/ Start \/ SelectGrab \/ SelectROI \/ SelectDestroy \/ SelectReturn \/ SelectFail
  \/ Compute \/ CtxInit \/ EnterConstruct \/ EnterConstructFail \/ EnterCheck
  \/ LoopInit \/ Capture \/ Overlay \/ Convert \/ Write \/ Count \/ Fps
  \/ Preview \/ Poll \/ RuntimeFail \/ Interrupt
  \/ CtxExit \/ Summary \/ MainExcept \/ Finally

Spec == Init /\ [][Next]_vars

\* main() is sequential code: once the loop has been left, __exit__, the
\* summary, the except clauses and finally each run when control reaches
\* them (release, print and destroyAllWindows return)
LiveSpec ==
  /\ Init /\ [][Next]_vars
  /\ WF_vars(CtxExit) /\ WF_vars(Summary)
  /\ WF_vars(MainExcept) /\ WF_vars(Finally)

\* ------------------------------------------------------- format_timestamp
\* Strings are sequences of one-character strings.
Digit(d) == <<"0", "1", "2", "3", "4", "5", "6", "7", "8", "9">>[d + 1]

\* a strftime numeric field: n in decimal, zero-padded to width digits
RECURSIVE ZeroPad(_, _)
ZeroPad(n, width) ==
  IF width = 0 THEN <<>>
  ELSE Append(ZeroPad(n \div 10, width - 1), Digit(n % 10))

\* '%Y-%m-%d %H:%M:' of the sample instant 2024-03-01 10:15
DatePrefix == <<"2", "0", "2", "4", "-", "0", "3", "-", "0", "1", " ",
                "1", "0", ":", "1", "5", ":">>

\* strftime('%Y-%m-%d %H:%M:%S.%f'): %S has 2 digits, %f has 6
strftime(inst) ==
  DatePrefix \o ZeroPad(inst.second, 2) \o <<".">> \o ZeroPad(inst.micro, 6)

format_timestamp_mutRound(inst) ==
  DatePrefix \o ZeroPad(inst.second, 2) \o <<".">>
             \o ZeroPad((inst.micro + 500) \div 1000, 3)

\* format_timestamp, line 69: strftime(...)[:-3]
format_timestamp(inst) ==
  LET s == strftime(inst) IN SubSeq(s, 1, Len(s) - 3)

\* instants the formatter is applied to: seconds and microseconds around
\* the digit and millisecond boundaries
SecondSamples == {0, 9, 30, 59}
MicroSamples  == {a * 1000 + b : a \in {0, 1, 9, 10, 99, 123, 999},
                                 b \in {0, 1, 456, 499, 500, 999}}

TsInit ==
  /\ MainInit
  /\ ts_instant \in [second : SecondSamples, micro : MicroSamples]
  /\ ts_text = <<>>

\* one call of format_timestamp, as in main, line 95
TsFormat ==
  /\ ts_text = <<>>
  /\ ts_text' = format_timestamp(ts_instant)
  /\ UNCHANGED <<ctl, selv, winv, encv, loopv, timev, ts_instant>>

TsNext == TsFormat

TsSpec == TsInit /\ [][TsNext]_vars

\* ================================================================ claims
\* the frame the cycle hands to the encoder for the i-th capture
ProcessedFrame(i) == [id |-> i, stamped |-> TRUE, order |-> "BGR"]

FullDisplay == <<0, 0, ScreenW, ScreenH>>

\* C1: in every session whose encoder was opened and bound by the with
\* statement, release() is never called twice, and when the process has
\* terminated it has been called exactly once, however the loop was left.
C1_ReleasedExactlyOnce ==
  /\ releaseCount <= 1
  /\ (pc = "done" /\ out = "writer") => releaseCount = 1

C1_Witness ==
  /\ pc = "done" /\ out = "writer" /\ leave = "error"
  /\ Len(written) >= 1 /\ releaseCount = 1

\* C2 (as stated): whenever the loop has been left, by stop, interrupt or
\* error, the terminated process has reported the summary.
C2_SummaryOnEveryPath ==
  (pc = "done" /\ leave # "none") => summary # <<>>

\* C2 (amended): the terminated process has reported the summary exactly
\* when the loop was left by the stop signal and no interrupt arrived
\* before the summary was printed; after an interrupt or an error in the
\* loop no summary is reported.
C2_SummaryOnlyOnNormalStop ==
  (pc = "done" /\ leave # "none") =>
     /\ (summary # <<>>) <=> (leave = "stop" /\ cause = "none")
     /\ (summary # <<>>) => /\ summary[1].frames = frame_count
                            /\ <<"summary">> = SelectSeq(console, LAMBDA m : m = "summary")
     /\ (summary = <<>>) => <<>> = SelectSeq(console, LAMBDA m : m = "summary")

C2_Witness ==
  /\ pc = "done" /\ leave = "error" /\ summary = <<>>
  /\ diag = "Critical error" /\ Len(written) >= 1

C4_ZeroAreaGivesFullDisplay ==
  /\ (region # <<>> /\ (roi[3] = 0 \/ roi[4] = 0)) => region = FullDisplay
  /\ resolution # <<>> => (resolution[1] # 0 /\ resolution[2] # 0)

\* C5: when the loop was left by an interrupt or an error, the terminated
\* process has released the encoder once and the finalized file holds
\* exactly the frames written, in order, each one the processed capture;
\* after an interrupt the exit is the user abort with status 0.
C5_PartialRecordingKept ==
  (pc = "done" /\ leave \in {"interrupt", "error"}) =>
     /\ writer = "released" /\ releaseCount = 1
     /\ file = written
     /\ \A i \in 1..Len(file) : file[i] = ProcessedFrame(i)
     /\ Len(file) \in {frame_count, frame_count + 1}
     /\ leave = "interrupt" =>
           /\ exitStatus = 0 /\ diag = "none"
           /\ console[Len(console)] = "aborted_by_user"

C5_Witness ==
  /\ pc = "done" /\ leave = "interrupt"
  /\ Len(file) = MaxFrames /\ frame_count = MaxFrames
  /\ writer = "released" /\ exitStatus = 0

\* C6 (as stated): after a failure to open the encoder the process ends
\* with a non-zero status, no frame was captured or written, no writer is
\* left created but unreleased, and no window is displayed.
C6_OpenFailureLeavesNothing ==
  (pc = "done" /\ cause = "encoder_open_failure") =>
     /\ exitStatus # 0
     /\ captured = <<>> /\ written = <<>> /\ frame_count = 0
     /\ writer \in {"none", "released"}
     /\ windows = {}

\* C7 (as stated): whenever the loop has been left by a stop signal or by
\* a user interrupt, the frame captured in the current cycle has been
\* written and counted.
C7_NoPreemption ==
  leave \in {"stop", "interrupt"} =>
     /\ Len(written) = Len(captured)
     /\ frame_count = Len(captured)

\* C7 (amended): whenever the loop has been left by a stop signal, the
\* frame captured in the current cycle has been written and counted; a
\* user interrupt is not deferred to a cycle boundary.
C7_StopNeverPreempts ==
  leave = "stop" =>
     /\ Len(written) = Len(captured)
     /\ frame_count = Len(captured)
     /\ Len(captured) >= 1
     /\ written[Len(written)] = ProcessedFrame(captured[Len(captured)])

C7_Witness ==
  /\ pc = "ctx_exit" /\ leave = "stop" /\ exc = "none"
  /\ frame_count = MaxFrames /\ Len(written) = MaxFrames

\* C8: for a region with x2 > x1 and y2 > y1 the encoder is constructed
\* with the resolution (x2 - x1, y2 - y1), which for a confirmed
\* rectangle (x, y, w, h) is (w, h).
C8_ResolutionIsRegionSize ==
  (writer # "none" /\ region[3] > region[1] /\ region[4] > region[2]) =>
     /\ resolution = <<region[3] - region[1], region[4] - region[2]>>
     /\ roi # <<0, 0, 0, 0>> => resolution = <<roi[3], roi[4]>>
     /\ roi = <<0, 0, 0, 0>> => resolution = <<ScreenW, ScreenH>>

C8_Witness ==
  /\ writer = "open" /\ roi = <<1, 1, 2, 1>>
  /\ region = <<1, 1, 3, 2>> /\ resolution = <<2, 1>>

\* C9: the frames written are the frames captured, in the order of
\* capture, none twice; without an error or interrupt no captured frame
\* is missing once its cycle has passed the write.
C9_WriteOrderIsCaptureOrder ==
  /\ Len(written) <= Len(captured)
  /\ \A i \in 1..Len(written) : written[i].id = captured[i]
  /\ \A i, j \in 1..Len(written) : written[i].id = written[j].id => i = j
  /\ (cause = "none" /\ pc \notin {"overlay", "convert", "write"}) =>
        Len(written) = Len(captured)

C9_Witness ==
  /\ pc = "done" /\ cause = "none"
  /\ Len(written) = MaxFrames /\ Len(captured) = MaxFrames

\* C10 (as stated): in every terminal state the encoder is not open and
\* no window created by the program is still displayed.
C10_TerminalStateClean ==
  pc = "done" => (writer # "open" /\ windows = {})

\* C11 (as stated): a user interrupt, wherever it arrives, ends in the
\* aborted-by-user report with status 0, never in the critical-error
\* exit, and no exception diagnostic is printed for it.
C11_InterruptIsCleanAbort ==
  (pc = "done" /\ cause = "interrupt") =>
     /\ console[Len(console)] = "aborted_by_user"
     /\ exitStatus = 0 /\ diag = "none"
     /\ \A i \in 1..Len(console) : console[i] # "exception_during_recording"

\* C12: a step of the cycle leaves the loop only by an exception or
\* interrupt, or at the poll; the poll leaves the loop exactly when the
\* masked key is 'q' or escape or the preview window is no longer
\* visible, and otherwise starts another cycle.
C12_LoopLeftOnlyByStop ==
  [][ /\ (pc = "poll" /\ pc' = "capture") =>
            (key' # 113 /\ key' # 27 /\ "preview" \in windows' /\ leave' = "none")
      /\ (pc = "poll" /\ exc' = "none") => pc' \in {"capture", "ctx_exit"}
      /\ (pc = "poll" /\ pc' = "ctx_exit" /\ exc' = "none") =>
            /\ (key' = 113 \/ key' = 27 \/ "preview" \notin windows')
            /\ leave' = "stop"
      /\ (pc \in CyclePcs /\ pc' \notin CyclePcs) =>
            (pc' = "ctx_exit" /\ (exc' # "none" \/ pc = "poll"))
    ]_vars

C12_Witness ==
  /\ pc = "capture" /\ frame_count = 1 /\ key = 97
  /\ "preview" \in windows /\ leave = "none"

\* C13: the divisor of both FPS computations is at least 0.001 s (1000
\* microseconds), also for an elapsed time of 0 or below the epsilon, so
\* with a frame count of at least 1 the per-cycle FPS and the average FPS
\* of the summary are finite and at most 1000 times the frame count.
C13_FpsNeverDividesByZero ==
  /\ pc \in {"preview", "poll"} =>
        /\ frame_count >= 1
        /\ fps[1] = frame_count * 1000000
        /\ fps[2] >= 1000
        /\ fps[2] = IF now - start_time < 1000 THEN 1000 ELSE now - start_time
        /\ fps[1] <= 1000 * frame_count * fps[2]
  /\ summary # <<>> =>
        /\ summary[1].frames >= 1
        /\ summary[1].avg[1] = summary[1].frames * 1000000
        /\ summary[1].avg[2] >= 1000
        /\ summary[1].avg[2] >= summary[1].duration
        /\ summary[1].avg[1] <= 1000 * summary[1].frames * summary[1].avg[2]

C13_Witness ==
  /\ pc = "preview" /\ frame_count = 1 /\ now = start_time
  /\ fps = <<1000000, 1000>>

\* C14: for every instant the formatted timestamp has exactly 3
\* fractional digits, equal to floor(microsecond / 1000) zero-padded
\* (truncated, never rounded up), after the unchanged date, time and
\* seconds fields.
C14_TimestampTruncatedToMillis ==
  ts_text # <<>> =>
     LET ms == ts_instant.micro \div 1000 IN
     /\ Len(ts_text) = 23
     /\ SubSeq(ts_text, 1, 17) = DatePrefix
     /\ ts_text[18] = Digit(ts_instant.second \div 10)
     /\ ts_text[19] = Digit(ts_instant.second % 10)
     /\ ts_text[20] = "."
     /\ ts_text[21] = Digit(ms \div 100)
     /\ ts_text[22] = Digit((ms \div 10) % 10)
     /\ ts_text[23] = Digit(ms % 10)
     /\ ms * 1000 <= ts_instant.micro

C14_Witness ==
  /\ ts_instant = [second |-> 30, micro |-> 123456]
  /\ ts_text = DatePrefix \o <<"3", "0", ".", "1", "2", "3">>

\* the phase of the session state machine that a position of main()
\* belongs to; the terminal position is DONE after a run without an
\* exceptional event and ABORTED otherwise
Phase ==
  CASE pc = "start" -> "INIT"
    [] pc \in {"select_grab", "select_roi", "select_destroy", "select_return"}
         -> "SELECTING_REGION"
    [] pc \in {"compute", "ctx_init", "enter_construct", "enter_check"}
         -> "OPENING_ENCODER"
    [] pc \in WithPcs -> "RUNNING"
    [] pc = "ctx_exit" -> "STOPPING"
    [] pc \in {"summary", "main_except", "finally"} -> "RELEASING"
    [] pc = "done" -> IF cause = "none" THEN "DONE" ELSE "ABORTED"

PhaseRank(ph) ==
  CASE ph = "INIT" -> 0
    [] ph = "SELECTING_REGION" -> 1
    [] ph = "OPENING_ENCODER" -> 2
    [] ph = "RUNNING" -> 3
    [] ph = "STOPPING" -> 4
    [] ph = "RELEASING" -> 5
    [] ph \in {"DONE", "ABORTED"} -> 6

\* C15: every step keeps or advances the phase in the order INIT,
\* SELECTING_REGION, OPENING_ENCODER, RUNNING, STOPPING, RELEASING, DONE
\* (one phase at a time while nothing exceptional has happened); the
\* writer is only created once the region is known, a frame is only
\* captured while the encoder is open, and no step leaves DONE or ABORTED.
C15_PhaseOrder ==
  [][ /\ pc # "done"
      /\ PhaseRank(Phase') >= PhaseRank(Phase)
      /\ cause' = "none" => PhaseRank(Phase') - PhaseRank(Phase) \in {0, 1}
      /\ Phase' = "DONE" => (Phase = "RELEASING" /\ cause = "none")
      /\ (writer = "none" /\ writer' # "none") =>
            (region # <<>> /\ Phase = "OPENING_ENCODER")
      /\ captured' # captured =>
            (writer = "open" /\ out = "writer" /\ Phase = "RUNNING")
    ]_vars

C15_Witness ==
  /\ Phase = "DONE" /\ releaseCount = 1 /\ summary # <<>>
  /\ captured # <<>> /\ region # <<>>

\* C16: once the poll has found the stop signal, no further frame is
\* captured, written or counted, and the process eventually terminates
\* with the encoder released and no window displayed, having printed the
\* summary and reached DONE unless an interrupt arrived in between.
C16_StopIsResponsive ==
  /\ [][leave = "stop" =>
          (captured' = captured /\ written' = written /\ frame_count' = frame_count)]_vars
  /\ (leave = "stop") ~>
        (/\ pc = "done" /\ writer = "released" /\ releaseCount = 1
         /\ windows = {}
         /\ cause = "none" => (summary # <<>> /\ Phase = "DONE" /\ exitStatus = 0))

C16_Witness ==
  /\ pc = "done" /\ leave = "stop" /\ cause = "none"
  /\ writer = "released" /\ summary # <<>>
  /\ "preview" \in shown /\ windows = {} /\ key = 113

\* C17: frame_count is raised by exactly one per cycle, right after the
\* write: it equals the number of frames written everywhere in the cycle
\* but between the write and the increment, and the summary reports the
\* number of frames written, which is the number of cycles run.
C17_CountIsWrites ==
  /\ pc \in CyclePcs \ {"count"} => frame_count = Len(written)
  /\ pc = "count" => (frame_count + 1 = Len(written) /\ Len(written) = Len(captured))
  /\ pc \in {"capture", "fps", "preview", "poll"} => frame_count = Len(captured)
  /\ summary # <<>> =>
        /\ summary[1].frames = Len(written)
        /\ summary[1].frames = Len(captured)
        /\ summary[1].avg[2] > 0

C17_Witness ==
  /\ pc = "done" /\ summary # <<>>
  /\ summary[1].frames = MaxFrames /\ Len(written) = MaxFrames

\* C18: a frame is written only while the encoder is open: the writer is
\* open and bound by the with statement at every write, and nothing is
\* written once it has been released.
C18_WriteOnlyWhileOpen ==
  [][ /\ written' # written =>
            (writer = "open" /\ writer' = "open" /\ out = "writer" /\ releaseCount = 0)
      /\ writer = "released" => (written' = written /\ writer' = "released")
    ]_vars

C18_Witness ==
  /\ pc = "count" /\ Len(written) = 1 /\ writer = "open" /\ releaseCount = 0

\* C19: the stop condition is evaluated after the write and the count of
\* the cycle, so a session left by the stop signal has captured, written
\* and counted at least one frame, and a summary reports at least 1.
C19_AtLeastOneFrameOnStop ==
  /\ leave = "stop" =>
        (Len(captured) >= 1 /\ Len(written) >= 1 /\ frame_count >= 1)
  /\ summary # <<>> => summary[1].frames >= 1

C19_Witness ==
  /\ pc = "done" /\ leave = "stop" /\ summary # <<>>
  /\ summary[1].frames = 1 /\ Len(written) = 1

\* C20: on a normal stop the encoder is released before the summary is
\* printed and the windows are destroyed by the program only after both;
\* no summary is printed while the encoder is open.
C20_ShutdownOrder ==
  [][ /\ summary' # summary =>
            (writer = "released" /\ releaseCount = 1 /\ writer' = "released")
      /\ (leave = "stop" /\ writer # "released" /\ writer' = "released") =>
            (summary = <<>> /\ windows' = windows)
      /\ (leave = "stop" /\ cause = "none" /\ pc \in {"ctx_exit", "summary"}) =>
            windows' = windows
      /\ (leave = "stop" /\ cause = "none" /\ pc = "finally") =>
            (writer = "released" /\ summary # <<>> /\ windows' = {} /\ pc' = "done")
    ]_vars

C20_Witness ==
  /\ pc = "finally" /\ leave = "stop" /\ cause = "none"
  /\ writer = "released" /\ summary # <<>> /\ "preview" \in windows

====
